---- MODULE Spec2Model ----
(***************************************************************************)
(* Model of HydraFlowDashboard (standalone_dashboard.py): the subscriber   *)
(* registry (register_client), the periodic broadcast loop                 *)
(* (broadcast_data) and the update generator (generate_live_data).         *)
(*                                                                         *)
(* Everything runs on one asyncio event loop, so a coroutine runs          *)
(* atomically from one await to the next.  The awaits are                  *)
(*   register_client : await websocket.wait_closed()                       *)
(*   broadcast_data  : await asyncio.gather(...), await asyncio.sleep(0.1) *)
(* and every client.send(...) coroutine of a gather is its own task.       *)
(*                                                                         *)
(* Numbers are fixed point: total_volume, profits_usd and avg_latency_us   *)
(* in whole units, ai_confidence and risk_score in hundredths,             *)
(* success_rate in tenths.                                                 *)
(***************************************************************************)
EXTENDS Integers, Sequences, FiniteSets, TLC

\* ---- bounds of the model ------------------------------------------------
MaxClients == 2      \* websocket handles the server may accept
MaxTicks == 2        \* iterations of the broadcast loop that are explored
UGrid == 1           \* random.uniform is drawn at u/UGrid, u in 0..UGrid
MaxHandlers == 2     \* concurrent register_client calls for one handle

\* ---- program constants --------------------------------------------------
N_max == 100         \* "Keep only last 100 trades"
W == 10              \* self.live_trades[-10:]

Handles == 1 .. MaxClients

MetricFields ==
    {"orders_executed", "total_volume", "avg_latency_us", "success_rate",
     "active_strategies", "ai_confidence", "risk_score", "memecoin_scanned",
     "profits_usd"}

\* self.metrics as built by __init__
InitMetrics ==
    [orders_executed |-> 0, total_volume |-> 0, avg_latency_us |-> 0,
     success_rate |-> 998, active_strategies |-> 12, ai_confidence |-> 85,
     risk_score |-> 15, memecoin_scanned |-> 0, profits_usd |-> 0]

\* ---- pure helpers -------------------------------------------------------
Max(a, b) == IF a >= b THEN a ELSE b

\* Python's seq[-n:] for n > 0: the last n elements, or all of seq if shorter
LastN(seq, n) == SubSeq(seq, Max(1, Len(seq) - n + 1), Len(seq))

\* random.uniform(a, b) = a + (b - a) * random(), random() drawn at u/UGrid
uniform(a, b, u) == a + ((b - a) * u) \div UGrid

\* random.randint(a, b), drawn at the same grid point
randint(a, b, u) == a + ((b - a) * u) \div UGrid

\* The random draws of one generate_live_data call: the metric draws all at
\* grid point u (0 is every minimum, UGrid every maximum), and
\* random.random() in hundredths, on either side of the 0.7 threshold.
Draws ==
    [u : 0 .. UGrid, rnd : {70, 71}]

\* the trade dict; id is the creation time, the remaining fields are
\* independent random.choice / random.uniform draws that nothing reads back
Trade(t) == [id |-> t, status |-> "EXECUTED"]

\* faulty variant: the counters are assigned (=) instead of accumulated (+=)
UpdateMetricsAssigns(m, r) ==
    [m EXCEPT !.orders_executed = randint(1, 5, r.u),
              !.total_volume = uniform(1000, 50000, r.u),
              !.avg_latency_us = uniform(50, 150, r.u),
              !.ai_confidence = 75 + uniform(0, 25, r.u),
              !.risk_score = uniform(5, 25, r.u),
              !.memecoin_scanned = randint(0, 3, r.u),
              !.profits_usd = @ + uniform(-100, 500, r.u)]

\* faulty variant: ai_confidence and risk_score drawn like risk_score and
\* profits_usd of the neighbouring lines
UpdateMetricsWrongRanges(m, r) ==
    [m EXCEPT !.orders_executed = @ + randint(1, 5, r.u),
              !.total_volume = @ + uniform(1000, 50000, r.u),
              !.avg_latency_us = uniform(50, 150, r.u),
              !.ai_confidence = 75 + uniform(5, 25, r.u),
              !.risk_score = uniform(-100, 500, r.u),
              !.memecoin_scanned = @ + randint(0, 3, r.u),
              !.profits_usd = @ + uniform(-100, 500, r.u)]

\* faulty variant: success_rate and active_strategies are redrawn like the
\* other metrics
UpdateMetricsRedrawsAll(m, r) ==
    [m EXCEPT !.orders_executed = @ + randint(1, 5, r.u),
              !.total_volume = @ + uniform(1000, 50000, r.u),
              !.avg_latency_us = uniform(50, 150, r.u),
              !.success_rate = uniform(990, 1000, r.u),
              !.active_strategies = @ + randint(0, 3, r.u),
              !.ai_confidence = 75 + uniform(0, 25, r.u),
              !.risk_score = uniform(5, 25, r.u),
              !.memecoin_scanned = @ + randint(0, 3, r.u),
              !.profits_usd = @ + uniform(-100, 500, r.u)]

\* lines 75-81
UpdateMetrics(m, r) ==
    [m EXCEPT !.orders_executed = @ + randint(1, 5, r.u),
              !.total_volume = @ + uniform(1000, 50000, r.u),
              !.avg_latency_us = uniform(50, 150, r.u),
              !.ai_confidence = 75 + uniform(0, 25, r.u),
              !.risk_score = uniform(5, 25, r.u),
              !.memecoin_scanned = @ + randint(0, 3, r.u),
              !.profits_usd = @ + uniform(-100, 500, r.u)]

\* faulty variant: the trim of lines 107-108 is missing
AppendTradeNoTrim(trades, trade) == Append(trades, trade)

\* faulty variant: the trim fires and cuts one element too early
AppendTradeTrimEarly(trades, trade) ==
    LET appended == Append(trades, trade) IN
    IF Len(appended) >= N_max THEN LastN(appended, N_max - 1) ELSE appended

\* lines 104-108: append, then keep only the last 100
AppendTrade(trades, trade) ==
    LET appended == Append(trades, trade) IN
    IF Len(appended) > N_max THEN LastN(appended, N_max) ELSE appended

\* lines 84-108
UpdateTrades(trades, r, t) ==
    IF r.rnd > 70 THEN AppendTrade(trades, Trade(t)) ELSE trades

\* generate_live_data on the store s = [metrics, live_trades] at time t
generate_live_data(s, r, t) ==
    [metrics |-> UpdateMetrics(s.metrics, r),
     live_trades |-> UpdateTrades(s.live_trades, r, t)]

\* the draw with every value at its minimum and a trade generated
MinTradeDraw == [u |-> 0, rnd |-> 71]

\* the store after n <= N_max broadcasting ticks of a freshly constructed
\* object, at times 1..n, all of which drew MinTradeDraw
StoreAfter(n) ==
    IF n = 0 THEN [metrics |-> InitMetrics, live_trades |-> <<>>]
    ELSE [metrics |-> [InitMetrics EXCEPT
                          !.orders_executed = n,
                          !.total_volume = 1000 * n,
                          !.avg_latency_us = 50,
                          !.ai_confidence = 75,
                          !.risk_score = 5,
                          !.profits_usd = (-100) * n],
          live_trades |-> [i \in 1 .. n |-> Trade(i)]]

\* numbers of earlier ticks the exploration starts after: a fresh object,
\* and a history one short of the capacity
InitTicks == {0, N_max - 1}

VARIABLES
    clients,        \* self.clients
    running,        \* self.running
    metrics,        \* self.metrics
    live_trades,    \* self.live_trades
    conn,           \* per handle: "none" (not yet accepted), "open", "closed"
    waiting,        \* per handle: register_client calls awaiting wait_closed
    handlerError,   \* handles whose register_client raised KeyError
    pc,             \* broadcast_data: "sleep", "gather" or "crashed"
    now,            \* clock, in tick periods
    iter,           \* loop iterations explored so far
    data,           \* the dict built by the current iteration
    sent,           \* per handle: argument of its client.send in this gather
    results         \* per handle: outcome of its send task in this gather

vars == <<clients, running, metrics, live_trades, conn, waiting, handlerError,
          pc, now, iter, data, sent, results>>

NoMsg == [type |-> "none"]

store == [metrics |-> metrics, live_trades |-> live_trades]

\* handles that have a send coroutine in the current gather
Targets == {c \in Handles : sent[c] # NoMsg}
\* send tasks of the current gather that have not finished
Pending == {c \in Targets : results[c] = "none"}

Init ==
    /\ clients = {}
    /\ running = TRUE
    /\ \E n \in InitTicks :
          \* StoreAfter(n) is what generate_live_data makes of StoreAfter(n-1)
          /\ n > 0 => StoreAfter(n) =
                          generate_live_data(StoreAfter(n - 1), MinTradeDraw, n)
          /\ metrics = StoreAfter(n).metrics
          /\ live_trades = StoreAfter(n).live_trades
          /\ now = n
    /\ conn = [c \in Handles |-> "none"]
    /\ waiting = [c \in Handles |-> 0]
    /\ handlerError = {}
    /\ pc = "sleep"
    /\ iter = 0
    /\ data = NoMsg
    /\ sent = [c \in Handles |-> NoMsg]
    /\ results = [c \in Handles |-> "none"]

\* ---- register_client ----------------------------------------------------
\* line 36: the server accepts a connection and starts the handler, which
\* runs up to await websocket.wait_closed().  Every connection gets a fresh
\* websocket object; handles are numbered in the order of acceptance.
Join(c) ==
    /\ conn[c] = "none"
    /\ \A d \in Handles : d < c => conn[d] # "none"
    /\ conn' = [conn EXCEPT ![c] = "open"]
    /\ waiting' = [waiting EXCEPT ![c] = 1]
    /\ clients' = clients \cup {c}
    /\ UNCHANGED <<running, metrics, live_trades, handlerError, pc, now, iter,
                   data, sent, results>>

\* the connection closes, gracefully or abruptly (the peer's doing)
Close(c) ==
    /\ conn[c] = "open"
    /\ conn' = [conn EXCEPT ![c] = "closed"]
    /\ UNCHANGED <<clients, running, metrics, live_trades, waiting,
                   handlerError, pc, now, iter, data, sent, results>>

\* set.remove: KeyError when the element is absent
SetRemove(s, x) ==
    IF x \in s THEN [set |-> s \ {x}, raised |-> FALSE]
    ELSE [set |-> s, raised |-> TRUE]

\* faulty variant: the finally block forgets self.clients.remove
LeaveKeepsMember(c) ==
    /\ conn[c] = "closed"
    /\ waiting[c] > 0
    /\ waiting' = [waiting EXCEPT ![c] = @ - 1]
    /\ UNCHANGED <<clients, running, metrics, live_trades, conn, handlerError,
                   pc, now, iter, data, sent, results>>

\* lines 40-42: wait_closed has returned, the finally block runs
Leave(c) ==
    /\ conn[c] = "closed"
    /\ waiting[c] > 0
    /\ waiting' = [waiting EXCEPT ![c] = @ - 1]
    /\ clients' = SetRemove(clients, c).set
    /\ handlerError' = IF SetRemove(clients, c).raised
                       THEN handlerError \cup {c} ELSE handlerError
    /\ UNCHANGED <<running, metrics, live_trades, conn, pc, now, iter, data,
                   sent, results>>

\* register_client called again for a handle that is already registered
\* (the coroutine is public; websockets.serve itself never does this)
Rejoin(c) ==
    /\ conn[c] = "open"
    /\ waiting[c] >= 1
    /\ waiting[c] < MaxHandlers
    /\ waiting' = [waiting EXCEPT ![c] = @ + 1]
    /\ clients' = clients \cup {c}
    /\ UNCHANGED <<running, metrics, live_trades, conn, handlerError, pc, now,
                   iter, data, sent, results>>

\* ---- broadcast_data -----------------------------------------------------
\* faulty variant: the whole history instead of the [-10:] slice
BuildDataWholeHistory(t, m, trades) ==
    [type |-> "update", timestamp |-> t, metrics |-> m, live_trades |-> trades]

\* faulty variant: the slice [:10] (the oldest events) instead of [-10:]
BuildDataOldestEvents(t, m, trades) ==
    [type |-> "update", timestamp |-> t, metrics |-> m,
     live_trades |-> SubSeq(trades, 1, IF Len(trades) < W THEN Len(trades) ELSE W)]

\* lines 50-62
BuildData(t, m, trades) ==
    [type |-> "update", timestamp |-> t, metrics |-> m,
     live_trades |-> LastN(trades, W)]

\* faulty variant: the dict is built before self.clients is looked at
TickIdleBuilds ==
    /\ pc = "sleep"
    /\ running
    /\ iter < MaxTicks
    /\ clients = {}
    /\ now' = now + 1
    /\ iter' = iter + 1
    /\ data' = [type |-> "update", timestamp |-> now + 1, metrics |-> metrics,
                live_trades |-> LastN(live_trades, W)]
    /\ UNCHANGED <<clients, running, metrics, live_trades, conn, waiting,
                   handlerError, pc, sent, results>>

\* faulty variant: generate_live_data is called before `if self.clients:`
TickIdleGenerates ==
    /\ pc = "sleep"
    /\ running
    /\ iter < MaxTicks
    /\ clients = {}
    /\ now' = now + 1
    /\ iter' = iter + 1
    /\ \E r \in Draws :
          LET s == generate_live_data(store, r, now + 1) IN
          /\ metrics' = s.metrics
          /\ live_trades' = s.live_trades
    /\ UNCHANGED <<clients, running, conn, waiting, handlerError, pc, data,
                   sent, results>>

\* lines 45-46, 71: the sleep is over, self.clients is empty, sleep again
TickIdle ==
    /\ pc = "sleep"
    /\ running
    /\ iter < MaxTicks
    /\ clients = {}
    /\ now' = now + 1
    /\ iter' = iter + 1
    /\ UNCHANGED <<clients, running, metrics, live_trades, conn, waiting,
                   handlerError, pc, data, sent, results>>

\* faulty variant: the dict is built before generate_live_data is called
TickBroadcastStaleData ==
    /\ pc = "sleep"
    /\ running
    /\ iter < MaxTicks
    /\ clients # {}
    /\ now' = now + 1
    /\ iter' = iter + 1
    /\ \E r \in Draws :
          LET s == generate_live_data(store, r, now + 1) IN
          /\ metrics' = s.metrics
          /\ live_trades' = s.live_trades
    /\ data' = BuildData(now + 1, metrics, live_trades)
    /\ sent' = [c \in Handles |-> IF c \in clients THEN data' ELSE NoMsg]
    /\ results' = [c \in Handles |-> "none"]
    /\ pc' = "gather"
    /\ UNCHANGED <<clients, running, conn, waiting, handlerError>>

\* faulty variant: a send is created for every handle ever accepted, not
\* only for the members of self.clients
TickBroadcastAllKnown ==
    /\ pc = "sleep"
    /\ running
    /\ iter < MaxTicks
    /\ clients # {}
    /\ now' = now + 1
    /\ iter' = iter + 1
    /\ \E r \in Draws :
          LET s == generate_live_data(store, r, now + 1) IN
          /\ metrics' = s.metrics
          /\ live_trades' = s.live_trades
          /\ data' = BuildData(now + 1, s.metrics, s.live_trades)
    /\ sent' = [c \in Handles |-> IF conn[c] # "none" THEN data' ELSE NoMsg]
    /\ results' = [c \in Handles |-> "none"]
    /\ pc' = "gather"
    /\ UNCHANGED <<clients, running, conn, waiting, handlerError>>

\* faulty variant: the history itself is cut to the window when the dict is
\* built (self.live_trades = self.live_trades[-10:])
TickBroadcastCutsHistory ==
    /\ pc = "sleep"
    /\ running
    /\ iter < MaxTicks
    /\ clients # {}
    /\ now' = now + 1
    /\ iter' = iter + 1
    /\ \E r \in Draws :
          LET s == generate_live_data(store, r, now + 1) IN
          /\ metrics' = s.metrics
          /\ live_trades' = LastN(s.live_trades, W)
          /\ data' = BuildData(now + 1, s.metrics, s.live_trades)
    /\ sent' = [c \in Handles |-> IF c \in clients THEN data' ELSE NoMsg]
    /\ results' = [c \in Handles |-> "none"]
    /\ pc' = "gather"
    /\ UNCHANGED <<clients, running, conn, waiting, handlerError>>

\* faulty variant: the dict is rebuilt for every subscriber, each with its
\* own timestamp
TickBroadcastPerClient ==
    /\ pc = "sleep"
    /\ running
    /\ iter < MaxTicks
    /\ clients # {}
    /\ now' = now + 1
    /\ iter' = iter + 1
    /\ \E r \in Draws :
          LET s == generate_live_data(store, r, now + 1) IN
          /\ metrics' = s.metrics
          /\ live_trades' = s.live_trades
          /\ data' = BuildData(now + 1, s.metrics, s.live_trades)
          /\ sent' = [c \in Handles |->
                         IF c \in clients
                         THEN BuildData(now + c, s.metrics, s.live_trades)
                         ELSE NoMsg]
    /\ results' = [c \in Handles |-> "none"]
    /\ pc' = "gather"
    /\ UNCHANGED <<clients, running, conn, waiting, handlerError>>

\* lines 45-69 up to the await: mutate the store, build the dict, create one
\* client.send(json.dumps(data)) per member of self.clients, start the gather
TickBroadcast ==
    /\ pc = "sleep"
    /\ running
    /\ iter < MaxTicks
    /\ clients # {}
    /\ now' = now + 1
    /\ iter' = iter + 1
    /\ \E r \in Draws :
          LET s == generate_live_data(store, r, now + 1) IN
          /\ metrics' = s.metrics
          /\ live_trades' = s.live_trades
          /\ data' = BuildData(now + 1, s.metrics, s.live_trades)
    /\ sent' = [c \in Handles |-> IF c \in clients THEN data' ELSE NoMsg]
    /\ results' = [c \in Handles |-> "none"]
    /\ pc' = "gather"
    /\ UNCHANGED <<clients, running, conn, waiting, handlerError>>

\* lines 48-67 when json.dumps(data) raises: the store has been mutated and
\* the dict built, no send has been created; nothing in broadcast_data or
\* main catches the exception, which ends the loop (and asyncio.run)
TickSerializeFails ==
    /\ pc = "sleep"
    /\ running
    /\ iter < MaxTicks
    /\ clients # {}
    /\ now' = now + 1
    /\ iter' = iter + 1
    /\ \E r \in Draws :
          LET s == generate_live_data(store, r, now + 1) IN
          /\ metrics' = s.metrics
          /\ live_trades' = s.live_trades
          /\ data' = BuildData(now + 1, s.metrics, s.live_trades)
    /\ pc' = "crashed"
    /\ UNCHANGED <<clients, running, conn, waiting, handlerError, sent,
                   results>>

\* a send task completes: the message went out on an open connection
SendOk(c) ==
    /\ pc = "gather"
    /\ c \in Pending
    /\ conn[c] = "open"
    /\ results' = [results EXCEPT ![c] = "ok"]
    /\ UNCHANGED <<clients, running, metrics, live_trades, conn, waiting,
                   handlerError, pc, now, iter, data, sent>>

\* faulty variant: gather without return_exceptions=True, the exception of
\* the send propagates out of broadcast_data
SendFailRaises(c) ==
    /\ pc = "gather"
    /\ c \in Pending
    /\ results' = [results EXCEPT ![c] = "exc"]
    /\ pc' = "crashed"
    /\ UNCHANGED <<clients, running, metrics, live_trades, conn, waiting,
                   handlerError, now, iter, data, sent>>

\* a send task raises; return_exceptions=True keeps it as that task's result
SendFail(c) ==
    /\ pc = "gather"
    /\ c \in Pending
    /\ results' = [results EXCEPT ![c] = "exc"]
    /\ UNCHANGED <<clients, running, metrics, live_trades, conn, waiting,
                   handlerError, pc, now, iter, data, sent>>

\* faulty variant: the subscribers whose send raised are dropped when the
\* gather returns
GatherDoneDropsFailed ==
    /\ pc = "gather"
    /\ Pending = {}
    /\ pc' = "sleep"
    /\ clients' = clients \ {c \in Handles : results[c] = "exc"}
    /\ sent' = [c \in Handles |-> NoMsg]
    /\ results' = [c \in Handles |-> "none"]
    /\ UNCHANGED <<running, metrics, live_trades, conn, waiting, handlerError,
                   now, iter, data>>

\* faulty variant: the sends are started but not awaited (fire and forget),
\* the loop goes to its sleep with sends still outstanding
GatherDoneNoWait ==
    /\ pc = "gather"
    /\ pc' = "sleep"
    /\ sent' = [c \in Handles |-> NoMsg]
    /\ results' = [c \in Handles |-> "none"]
    /\ UNCHANGED <<clients, running, metrics, live_trades, conn, waiting,
                   handlerError, now, iter, data>>

\* lines 66-71: every send task is done, gather returns the list of results,
\* which is dropped together with the finished coroutines; the loop sleeps
GatherDone ==
    /\ pc = "gather"
    /\ Pending = {}
    /\ pc' = "sleep"
    /\ sent' = [c \in Handles |-> NoMsg]
    /\ results' = [c \in Handles |-> "none"]
    /\ UNCHANGED <<clients, running, metrics, live_trades, conn, waiting,
                   handlerError, now, iter, data>>

Next ==
    \/ \E c \in Handles : Join(c)
    \/ \E c \in Handles : Close(c)
    \/ \E c \in Handles : Leave(c)
    \/ TickIdle
    \/ TickBroadcast
    \/ \E c \in Handles : SendOk(c)
    \/ \E c \in Handles : SendFail(c)
    \/ GatherDone

Spec == Init /\ [][Next]_vars

\* the same object driven through its public coroutines, register_client
\* being callable more than once for one websocket
NextReentry ==
    \/ Next
    \/ \E c \in Handles : Rejoin(c)

SpecReentry == Init /\ [][NextReentry]_vars

\* Spec with the event loop's scheduling of register_client: once
\* wait_closed has returned the coroutine is ready, and the loop runs every
\* ready coroutine, also while broadcast_data waits in its gather or sleep
SpecFair == Spec /\ \A c \in Handles : WF_vars(Leave(c))

\* the same object with a json.dumps that can raise
NextSerializeFault ==
    \/ Next
    \/ TickSerializeFails

SpecSerializeFault == Init /\ [][NextSerializeFault]_vars

TypeOK ==
    /\ clients \subseteq Handles
    /\ running \in BOOLEAN
    /\ DOMAIN metrics = MetricFields
    /\ Len(live_trades) >= 0
    /\ conn \in [Handles -> {"none", "open", "closed"}]
    /\ waiting \in [Handles -> 0 .. MaxHandlers]
    /\ handlerError \subseteq Handles
    /\ pc \in {"sleep", "gather", "crashed"}
    /\ iter \in 0 .. MaxTicks
    /\ results \in [Handles -> {"none", "ok", "exc"}]

\* ---- properties ---------------------------------------------------------

\* C1: between operations the event history live_trades never holds more
\* than N_max = 100 events.
C1_HistoryBounded == Len(live_trades) <= N_max

\* a full history whose oldest event has already been evicted
C1_Witness ==
    /\ Len(live_trades) = N_max
    /\ live_trades[1].id > 1

\* C2: an append to a full history (length N_max) evicts exactly the oldest
\* event and keeps the others, in order, in front of the new event; an append
\* to a shorter history evicts nothing.
C2_AppendEvictsOldest ==
    [][live_trades' # live_trades =>
          LET n == Len(live_trades) IN
          IF n = N_max
          THEN /\ Len(live_trades') = N_max
               /\ \A i \in 1 .. N_max - 1 : live_trades'[i] = live_trades[i + 1]
               /\ live_trades'[N_max] = Trade(now')
               /\ \A i \in 1 .. N_max : live_trades'[i] # live_trades[1]
          ELSE /\ Len(live_trades') = n + 1
               /\ \A i \in 1 .. n : live_trades'[i] = live_trades[i]
               /\ live_trades'[n + 1] = Trade(now')]_vars

\* the state right after an append to a full history: event 1 is gone,
\* events 2..N_max moved up, the new event is last
C2_Witness ==
    /\ Len(live_trades) = N_max
    /\ live_trades[1].id = 2
    /\ live_trades[N_max].id = now
    /\ live_trades[N_max].id > N_max

\* steps of broadcast_data
TickStep == pc = "sleep" /\ iter' = iter + 1
DeliveryBegins == pc = "sleep" /\ pc' = "gather"
BroadcastCompletes == pc = "gather" /\ pc' # "gather"

\* the send to c has raised in the current gather
SendFailed(c) == results[c] = "exc"
\* register_client has finished for c: its finally block has run
Left(c) == conn[c] = "closed" /\ waiting[c] = 0

C4_FailureIsolated ==
    [][(\E c \in Handles : results'[c] = "exc" \/ SendFailed(c)) =>
          /\ pc' # "crashed"
          /\ running'
          /\ (pc = "gather" /\ pc' = "gather") => sent' = sent
          /\ BroadcastCompletes =>
                 /\ pc' = "sleep"
                 /\ \A d \in Targets : results[d] \in {"ok", "exc"}]_vars

\* one send of the tick has failed and another one has then been delivered
C4_Witness ==
    /\ pc = "gather"
    /\ \E c, d \in Targets : results[c] = "exc" /\ results[d] = "ok"

\* C5: whatever the interleaving of joins, leaves and ticks, a tick creates
\* no send for a handle whose register_client had finished when the
\* delivery phase began, attempts only the sends it created then, and no
\* exception escapes broadcast_data.
C5_NoDeliveryAfterLeave ==
    [][/\ pc' # "crashed"
       /\ DeliveryBegins => \A c \in Handles : Left(c) => sent'[c] = NoMsg
       /\ (pc = "gather" /\ pc' = "gather") => sent' = sent
       /\ \A c \in Handles : results'[c] # results[c] => c \in Targets]_vars

\* a delivery phase under way with a send for a registered handle and none
\* for a handle that has left
C5_Witness ==
    /\ pc = "gather"
    /\ \E c, d \in Handles : Left(c) /\ sent[c] = NoMsg /\ d \in Pending

\* C6: every handle that is in self.clients when a tick begins gets a send
\* in that tick, whose message has a metrics object with the nine metric
\* fields and at most W = 10 events.
C6_JoinedIsServed ==
    [][TickStep =>
          \A c \in clients :
              /\ sent'[c] # NoMsg
              /\ sent'[c].type = "update"
              /\ DOMAIN sent'[c].metrics = MetricFields
              /\ Len(sent'[c].live_trades) <= W]_vars

\* a handle being sent a message with a full window of W events
C6_Witness ==
    \E c \in clients :
        /\ sent[c] # NoMsg
        /\ Len(sent[c].live_trades) = W
        /\ Len(live_trades) > W

\* C7: a tick that finds self.clients empty builds no message, creates and
\* attempts no send, and leaves self.clients as it is.
C7_EmptyTickIsNoOp ==
    [][(TickStep /\ clients = {}) =>
          UNCHANGED <<clients, data, sent, results, pc>>]_vars

\* an idle tick has gone by: the clock moved and still no message was built
C7_Witness ==
    /\ iter > 0
    /\ clients = {}
    /\ data = NoMsg

\* C8: orders_executed, total_volume and memecoin_scanned never decrease,
\* whatever the step.
C8_CountersMonotone ==
    [][/\ metrics'.orders_executed >= metrics.orders_executed
       /\ metrics'.total_volume >= metrics.total_volume
       /\ metrics'.memecoin_scanned >= metrics.memecoin_scanned]_vars

\* two ticks have accumulated: both integer counters are beyond what one
\* tick can add to a fresh object
C8_Witness ==
    /\ iter >= 2
    /\ metrics.orders_executed > 5
    /\ metrics.memecoin_scanned > 3
    /\ metrics.total_volume > 50000

\* C9: initially and after every tick ai_confidence is in [0.75, 1.0] and
\* risk_score in [0.05, 0.25] (in hundredths).
C9_ConfidenceAndRiskInRange ==
    /\ metrics.ai_confidence >= 75
    /\ metrics.ai_confidence <= 100
    /\ metrics.risk_score >= 5
    /\ metrics.risk_score <= 25

\* a tick has drawn both values at the upper end of their ranges
C9_Witness ==
    /\ iter > 0
    /\ metrics.ai_confidence = 100
    /\ metrics.risk_score = 25

\* C10: leave is idempotent: when register_client's finally block runs for
\* a handle that is not in self.clients, nothing is raised and the set
\* stays as it is.
C10_LeaveIdempotent ==
    [][\A c \in Handles :
          (waiting'[c] < waiting[c] /\ c \notin clients) =>
              (clients' = clients /\ handlerError' = handlerError)]_vars

\* C11 (as stated): deliveries are fire-and-forget: while a send of the
\* current tick is still outstanding the loop can go on to its next tick, so
\* a send that never completes holds nothing back.
C11_FireAndForget ==
    (Pending # {} /\ iter < MaxTicks) => ENABLED (TickIdle \/ TickBroadcast)

\* C11 (amended): deliveries are awaited.  The broadcast of a tick completes
\* only when every send it created has an outcome, and a tick starts only
\* from the sleep that follows, with no send outstanding; as long as one send
\* stays outstanding no later tick starts and no later message is built.
C11_SendsAreAwaited ==
    [][/\ BroadcastCompletes => Pending = {}
       /\ TickStep => (pc = "sleep" /\ Targets = {})
       /\ Pending # {} => (iter' = iter /\ data' = data /\ sent' = sent)]_vars

\* one send of the tick is done, another is outstanding, and ticks remain
C11_Witness ==
    /\ pc = "gather"
    /\ iter < MaxTicks
    /\ \E c, d \in Targets : results[c] = "ok" /\ results[d] = "none"

\* C12: the metrics of a tick's message are the values that tick's own
\* generate_live_data call produced: orders_executed in the message is within
\* [v, v + 5] for the value v before the tick, and a single subscriber gets
\* exactly one message.
C12_MessageCarriesThisTicksMetrics ==
    [][(TickStep /\ clients # {}) =>
          /\ \A c \in clients :
                 /\ sent'[c] # NoMsg
                 /\ sent'[c].metrics = metrics'
                 /\ sent'[c].metrics.orders_executed >= metrics.orders_executed
                 /\ sent'[c].metrics.orders_executed
                        <= metrics.orders_executed + 5
          /\ Cardinality(clients) = 1 => Cardinality(Targets') = 1]_vars

\* the first tick of a fresh object with one subscriber: its message went
\* out with orders_executed = 0 + 5
C12_Witness ==
    /\ iter = 1
    /\ Cardinality(Targets) = 1
    /\ \E c \in Targets :
           results[c] = "ok" /\ sent[c].metrics.orders_executed = 5

\* C13 (as stated): every tick of the loop, with or without subscribers,
\* runs the generator once: orders_executed grows by 1..5 in every iteration.
C13_GeneratorRunsEveryTick ==
    [][TickStep =>
          /\ metrics'.orders_executed >= metrics.orders_executed + 1
          /\ metrics'.orders_executed <= metrics.orders_executed + 5]_vars

\* C13 (amended): the generator runs exactly once in every tick that finds
\* self.clients non-empty (orders_executed grows by 1..5) and not at all in
\* a tick that finds it empty, nor in any other step: metrics and history
\* then stay as they are.
C13_GeneratorRunsWhenSubscribed ==
    [][/\ (TickStep /\ clients # {}) =>
              /\ metrics'.orders_executed >= metrics.orders_executed + 1
              /\ metrics'.orders_executed <= metrics.orders_executed + 5
       /\ (TickStep /\ clients = {}) => UNCHANGED <<metrics, live_trades>>
       /\ ~TickStep => UNCHANGED <<metrics, live_trades>>]_vars

\* two iterations of a fresh object, one idle and one broadcasting: a single
\* generator run shows in orders_executed
C13_Witness ==
    /\ iter = 2
    /\ now = 2
    /\ metrics.orders_executed >= 1
    /\ metrics.orders_executed <= 5

\* C14: the events of a tick's message are exactly the last min(W, length)
\* entries of live_trades as it is when the message is built, in the same
\* order, the most recent one last.
C14_MessageCarriesLastWEvents ==
    [][(TickStep /\ clients # {}) =>
          \A c \in clients :
              LET ev == sent'[c].live_trades
                  n == Len(live_trades')
                  k == IF n < W THEN n ELSE W
              IN /\ Len(ev) = k
                 /\ \A i \in 1 .. k : ev[i] = live_trades'[n - k + i]]_vars

\* a message with a full window cut from a longer history, ending with the
\* event this very tick appended
C14_Witness ==
    /\ pc = "gather"
    /\ Len(live_trades) > W
    /\ \E c \in Targets :
           /\ Len(sent[c].live_trades) = W
           /\ sent[c].live_trades[W] = Trade(now)
           /\ sent[c].live_trades[1] = live_trades[Len(live_trades) - W + 1]

\* C15: a tick that finds self.clients non-empty creates a send for exactly
\* the members of self.clients at that moment, each of these sends gets
\* exactly one outcome (delivered or raised) before the broadcast completes,
\* and no other handle gets a send or an outcome.
C15_OneDeliveryPerSubscriber ==
    [][/\ (TickStep /\ clients # {}) => DeliveryBegins
       /\ DeliveryBegins =>
              (Targets' = clients /\ \A c \in Handles : results'[c] = "none")
       /\ (pc = "gather" /\ pc' = "gather") =>
              /\ sent' = sent
              /\ \A c \in Handles :
                     results'[c] # results[c] =>
                         /\ c \in Targets
                         /\ results[c] = "none"
                         /\ results'[c] \in {"ok", "exc"}
       /\ BroadcastCompletes =>
              \A c \in Handles :
                  IF c \in Targets THEN results[c] \in {"ok", "exc"}
                  ELSE results[c] = "none"]_vars

\* a broadcast about to complete: every member at its start has its
\* outcome, and an accepted handle that was not a member then has none
C15_Witness ==
    /\ pc = "gather"
    /\ Pending = {}
    /\ \E c \in Targets : results[c] = "ok"
    /\ \E d \in Handles \ Targets : conn[d] # "none" /\ results[d] = "none"

\* C16: when serializing the message fails in a tick (the tick found
\* subscribers and created no send), nothing is delivered, the failure stays
\* inside the loop, and the loop goes on to its sleep and the next tick.
C16_SerializeFailureSkipsTick ==
    [][(TickStep /\ clients # {} /\ Targets' = {}) =>
          (pc' = "sleep" /\ running')]_vars

\* C17: a handle enters self.clients exactly when its connection is
\* established (register_client starts), leaves it only after its connection
\* has closed, is eventually absent once the connection has closed, and is
\* never added again after that.
C17_SubscriberLifecycle ==
    /\ [][\A c \in Handles :
             /\ (c \notin clients /\ c \in clients') =>
                    (conn[c] = "none" /\ conn'[c] = "open")
             /\ (conn[c] = "none" /\ conn'[c] = "open") => c \in clients'
             /\ (c \in clients /\ c \notin clients') => conn[c] = "closed"
             /\ (conn[c] = "closed" /\ c \notin clients) => c \notin clients'
          ]_vars
    /\ \A c \in Handles : (conn[c] = "closed") ~> (c \notin clients)

\* a connection has closed and its handle is out of the set, next to a
\* handle that is still connected and registered
C17_Witness ==
    \E c, d \in Handles :
        /\ conn[c] = "closed" /\ c \notin clients
        /\ conn[d] = "open" /\ d \in clients

\* C18: success_rate and active_strategies keep their initial values, 99.8
\* (in tenths) and 12, whatever happens.
C18_RateAndStrategiesConstant ==
    /\ metrics.success_rate = 998
    /\ metrics.active_strategies = 12

\* the generator has run twice and both values are as constructed
C18_Witness ==
    /\ iter = 2
    /\ metrics.orders_executed = 10
    /\ metrics.success_rate = InitMetrics.success_rate
    /\ metrics.active_strategies = InitMetrics.active_strategies

\* C19: metrics and history change only in the generate_live_data call of a
\* tick that found subscribers, and then to what that call makes of them; a
\* join, a leave, a close, a send outcome and the end of a broadcast leave
\* both as they are, and the message handed to the sends does not disturb
\* them either.
C19_OnlyGeneratorMutatesStore ==
    [][/\ (metrics' # metrics \/ live_trades' # live_trades) =>
              /\ TickStep
              /\ clients # {}
              /\ \E r \in Draws :
                     generate_live_data(store, r, now') =
                         [metrics |-> metrics', live_trades |-> live_trades']
       /\ ~TickStep => UNCHANGED <<metrics, live_trades>>]_vars

\* a handle has left, a send has raised and one was delivered in a tick that
\* grew a long history: the store is still what the generator left
C19_Witness ==
    /\ pc = "gather"
    /\ Len(live_trades) = N_max
    /\ metrics = data.metrics
    /\ \E c, d \in Handles : Left(c) /\ results[d] = "exc"

\* C20: all sends of one tick carry the same payload, namely the message
\* built from the store as it is throughout that tick's delivery phase.
C20_SamePayloadForAll ==
    \A c \in Targets :
        /\ \A d \in Targets : sent[c] = sent[d]
        /\ sent[c] = data
        /\ sent[c].metrics = metrics
        /\ sent[c].live_trades = LastN(live_trades, W)

\* two subscribers served in one tick, one send done, one outstanding
C20_Witness ==
    /\ Cardinality(Targets) = 2
    /\ \E c, d \in Targets :
           /\ c # d
           /\ results[c] = "ok"
           /\ results[d] = "none"
           /\ sent[c] = sent[d]
====
